---- MODULE Spec2Model ----
(***************************************************************************)
(* The ECB exchange-rate pipeline of src/src/exchange_rates_pipeline.py:   *)
(* fetch the published archive, apply a schema file, upsert the rates,     *)
(* apply a second schema file, convert the orders.  One action per call    *)
(* that main makes; every action is the whole call, its logging, its       *)
(* handlers and its re-raise included.                                     *)
(*                                                                         *)
(* Text is a sequence of one-character strings, so that str.strip() and    *)
(* float() are computed and not assumed.  A number (a Python float, an SQL *)
(* numeric) is a record [t, n, d]: the fraction n/d, NaN, or SQL NULL.     *)
(***************************************************************************)
EXTENDS Integers, Sequences, FiniteSets, TLC

\* ------------------------------------------------------------- bounds
\* Process runs of main (the external scheduler starts the job again).
MaxRuns == 2
\* Currency columns of a published table (the columns after the date).
MaxCols == 2
\* Files in a downloaded archive.
MaxFiles == 2
\* Rows of the externally owned orders table.
NumOrders == 2

\* ------------------------------------------------------------- numbers
Num(k) == [t |-> "num", n |-> k, d |-> 1]
NaN == [t |-> "nan", n |-> 0, d |-> 1]
Null == [t |-> "null", n |-> 0, d |-> 1]

Abs(k) == IF k < 0 THEN -k ELSE k

RECURSIVE Gcd(_, _)
Gcd(a, b) == IF b = 0 THEN a ELSE Gcd(b, a % b)

\* The fraction p/q (q # 0) in lowest terms with a positive denominator.
Frac(p, q) ==
    LET g == Gcd(Abs(p), Abs(q))
        s == IF q < 0 THEN -1 ELSE 1
    IN  [t |-> "num", n |-> (s * p) \div g, d |-> (s * q) \div g]

\* SQL a - b: NULL if an operand is NULL, NaN if one is NaN.
Sub(a, b) ==
    IF a.t = "null" \/ b.t = "null" THEN Null
    ELSE IF a.t = "nan" \/ b.t = "nan" THEN NaN
    ELSE Frac(a.n * b.d - b.n * a.d, a.d * b.d)

\* SQL a / b raises division_by_zero on a zero divisor.
DivisionByZero(a, b) == a.t = "num" /\ b.t = "num" /\ b.n = 0

\* SQL a / b where it does not raise.
Div(a, b) ==
    IF a.t = "null" \/ b.t = "null" THEN Null
    ELSE IF a.t = "nan" \/ b.t = "nan" THEN NaN
    ELSE Frac(a.n * b.d, a.d * b.n)

\* ---------------------------------------------------------------- text
SP == " "
EUR == <<"E", "U", "R">>
USD == <<"U", "S", "D">>
GBP == <<"G", "B", "P">>
DateHeader == <<"D", "a", "t", "e">>

RECURSIVE LStrip(_)
LStrip(s) == IF s # <<>> /\ Head(s) = SP THEN LStrip(Tail(s)) ELSE s

RECURSIVE RStrip(_)
RStrip(s) == IF s # <<>> /\ s[Len(s)] = SP THEN RStrip(SubSeq(s, 1, Len(s) - 1)) ELSE s

\* str.strip()
Strip(s) == RStrip(LStrip(s))

\* str.isspace(): at least one character, all of them whitespace.
IsSpace(s) == s # <<>> /\ \A i \in 1..Len(s) : s[i] = SP

DigitValue(c) == CASE c = "0" -> 0 [] c = "1" -> 1 [] c = "2" -> 2 [] c = "3" -> 3 [] c = "4" -> 4 [] c = "5" -> 5 [] c = "6" -> 6 [] c = "7" -> 7 [] c = "8" -> 8 [] c = "9" -> 9 [] OTHER -> -1

IsDigits(s) == s # <<>> /\ \A i \in 1..Len(s) : DigitValue(s[i]) >= 0

RECURSIVE Decimal(_)
Decimal(s) == IF s = <<>> THEN 0 ELSE 10 * Decimal(SubSeq(s, 1, Len(s) - 1)) + DigitValue(s[Len(s)])

DigitChar(k) == CASE k = 0 -> "0" [] k = 1 -> "1" [] k = 2 -> "2" [] k = 3 -> "3" [] k = 4 -> "4" [] k = 5 -> "5" [] k = 6 -> "6" [] k = 7 -> "7" [] k = 8 -> "8" [] OTHER -> "9"

RECURSIVE Digits(_)
Digits(k) == IF k < 10 THEN <<DigitChar(k)>> ELSE Digits(k \div 10) \o <<DigitChar(k % 10)>>


\* "Unnamed: {i}", the name pandas gives a header cell that is empty.
Unnamed(i) == <<"U", "n", "n", "a", "m", "e", "d", ":", SP>> \o Digits(i)

\* --------------------------------------------------- the published feed
\* A table of the archive: the header cells and the cells of the one data
\* row, as text; the first column is the publication date.
Table(names, cells) == [header |-> <<DateHeader>> \o names, row |-> <<<<"d">>>> \o cells]

\* Header cells of the currency columns: padded codes as the bank publishes
\* them, a whitespace-only cell (the publication's trailing column) and an
\* empty cell.
RawNames == {<<SP, "U", "S", "D">>, <<SP, "E", "U", "R", SP>>, <<SP>>, <<>>}

\* Data cells: two rates, a zero, an empty cell and a whitespace-only cell.
RawCells == {<<SP, "2">>, <<"0">>, <<>>, <<SP>>}

Injective(f) == \A i, j \in DOMAIN f : f[i] = f[j] => i = j

\* The publication's codes are distinct, so the header cells are.
Tables == UNION {{Table(ns, cs) : ns \in {f \in [1..k -> RawNames] : Injective(f)}, cs \in [1..k -> RawCells]} : k \in 1..MaxCols}

\* The files of an archive that holds several.
ExtraTables == {Table(<<<<SP, "U", "S", "D">>>>, <<<<SP, "2">>>>), Table(<<<<SP, "U", "S", "D">>>>, <<<<"0">>>>)}

Archives == {<<>>} \cup {<<tb>> : tb \in Tables} \cup UNION {[1..k -> ExtraTables] : k \in 2..MaxFiles}

\* What the GET of URL answers: a failure status, bytes that are no ZIP
\* archive, or an archive.
Payloads == {[status |-> "http_error", files |-> <<>>], [status |-> "bad_zip", files |-> <<>>]} \cup {[status |-> "zip", files |-> a] : a \in Archives}

\* ------------------------------------------------------------ read_csv
FloatCell(x) == [k |-> "float", x |-> x, s |-> <<>>]
StrCell(s) == [k |-> "str", x |-> NaN, s |-> s]

\* pandas names an empty header cell "Unnamed: i" (i from 0); any other
\* cell, a whitespace-only one too, is the column's name as written.
PandasName(i, raw) == IF raw = <<>> THEN Unnamed(i) ELSE raw

\* pandas reads an empty cell as NaN and a number as a number; anything
\* else, a whitespace-only cell too, stays text.
ParseCell(raw) ==
    IF raw = <<>> THEN FloatCell(NaN)
    ELSE IF IsDigits(Strip(raw)) THEN FloatCell(Num(Decimal(Strip(raw))))
    ELSE StrCell(raw)

ReadCsv(tb) == [columns |-> [i \in 1..Len(tb.header) |-> PandasName(i - 1, tb.header[i])], values |-> [i \in 1..Len(tb.row) |-> ParseCell(tb.row[i])]]

\* df.columns = [col.strip() ...]: read_csv's names are all str, so the
\* column_{i} branch is never taken.
CleanColumns(df) == [df EXCEPT !.columns = [i \in 1..Len(df.columns) |-> Strip(df.columns[i])]]

\* ------------------------------------------------------- the rate dict
\* A dict in insertion order: a sequence of [k, v] with distinct keys.
Keys(m) == {m[i].k : i \in 1..Len(m)}

DictGet(m, key) == m[CHOOSE i \in 1..Len(m) : m[i].k = key].v

\* m[key] = v: an existing key keeps its place.
DictSet(m, key, v) ==
    IF key \in Keys(m) THEN [i \in 1..Len(m) |-> IF m[i].k = key THEN [k |-> key, v |-> v] ELSE m[i]]
    ELSE Append(m, [k |-> key, v |-> v])

\* float(value) raises ValueError on text that is no number.
FloatRaises(cell) == cell.k = "str" /\ ~IsDigits(Strip(cell.s))

Float(cell) == IF cell.k = "float" THEN cell.x ELSE Num(Decimal(Strip(cell.s)))

\* "Filter empty currency code"
SkipColumn(currency) == currency = <<>> \/ IsSpace(currency)

\* "Filter empty currency value": the condition of the warning.
MissingValue(cell) == (cell.k = "float" /\ cell.x.t = "nan") \/ (cell.k = "str" /\ Strip(cell.s) = <<>>)

\* The bug of doing what the warning says: a column with a missing value
\* is skipped.
RateStepSkipping(df, i, acc) ==
    LET currency == df.columns[i]
        value == df.values[i]
    IN  IF SkipColumn(currency) THEN acc
        ELSE IF MissingValue(value) THEN [acc EXCEPT !.warned = Append(acc.warned, currency)]
        ELSE IF FloatRaises(value) THEN [acc EXCEPT !.exc = "ValueError"]
        ELSE [acc EXCEPT !.rates = DictSet(acc.rates, Strip(currency), Float(value))]

\* One pass of the loop body for column i, on the loop's state
\* [exc, rates, warned].
RateStep(df, i, acc) ==
    LET currency == df.columns[i]
        value == df.values[i]
        warned == IF MissingValue(value) THEN Append(acc.warned, currency) ELSE acc.warned
    IN  IF SkipColumn(currency) THEN acc
        ELSE IF FloatRaises(value) THEN [exc |-> "ValueError", rates |-> acc.rates, warned |-> warned]
        ELSE [exc |-> "none", rates |-> DictSet(acc.rates, Strip(currency), Float(value)), warned |-> warned]

\* for currency in df.columns[1:], from column i on; a raise ends the loop.
RECURSIVE ProcessRates(_, _, _)
ProcessRates(df, i, acc) ==
    IF i > Len(df.columns) \/ acc.exc # "none" THEN acc
    ELSE ProcessRates(df, i + 1, RateStep(df, i, acc))

\* The bug of inserting EUR only where the source had none.
InsertEURIfMissing(m) == IF EUR \in Keys(m) THEN m ELSE Append(m, [k |-> EUR, v |-> Num(1)])

\* rates["EUR"] = 1.0
InsertEUR(m) == DictSet(m, EUR, Num(1))

\* The bug of stopping at the first entry.
DataCsvFirst(files) == IF files = <<>> THEN 0 ELSE 1

\* for file_info in zip_file.infolist(): data_csv = file_info.filename
\* leaves the name of the last entry; 0 when the archive is empty and the
\* name is never bound.
DataCsv(files) == Len(files)


\* ------------------------------------------------------------- logging
\* A line of the log: the message and the value formatted into it.
Line(msg, arg) == [msg |-> msg, arg |-> arg]

\* logger.warn(f"Warning: Missing value for {currency}, skipping"), once
\* per column the loop found blank.
Warnings(warned) == [i \in 1..Len(warned) |-> Line("Warning: Missing value", warned[i])]

\* The bug of saving before the archive is read.
SavedFirst(exc) == TRUE

\* The snapshot lines (the directory made, the file written) come after
\* the loop: they run when nothing raised before them.
Saved(exc) == exc = "none"

\* ------------------------------------ import_exchange_rate_from_csv_zip
\* The call on payload p: the exception that leaves it ("none": it
\* returns), the mapping returned, the lines logged, and whether the
\* snapshot file was written (and the export directory made).
ImportExchangeRateFromCsvZip(p) ==
    IF p.status = "http_error"
    THEN [exc |-> "RequestException", rates |-> <<>>, saved |-> Saved("RequestException"), log |-> <<Line("Error downloading exchange rates CSV zip", <<>>)>>]
    ELSE IF p.status = "bad_zip"
    THEN [exc |-> "BadZipFile", rates |-> <<>>, saved |-> Saved("BadZipFile"), log |-> <<Line("Error with the zip file format", <<>>)>>]
    ELSE IF DataCsv(p.files) = 0
    THEN [exc |-> "UnboundLocalError", rates |-> <<>>, saved |-> Saved("UnboundLocalError"), log |-> <<>>]
    ELSE LET df == CleanColumns(ReadCsv(p.files[DataCsv(p.files)]))
             loop == ProcessRates(df, 2, [exc |-> "none", rates |-> <<>>, warned |-> <<>>])
             seen == <<Line("Extracted rates for date", df.values[1].s)>> \o Warnings(loop.warned)
         IN  IF loop.exc # "none"
             THEN [exc |-> loop.exc, rates |-> <<>>, saved |-> Saved(loop.exc), log |-> seen]
             ELSE [exc |-> "none", rates |-> InsertEUR(loop.rates), saved |-> Saved("none"), log |-> Append(seen, Line("Successfully retrieved currency rates", Len(InsertEUR(loop.rates))))]

\* ------------------------------------------------------------ database
\* How a call that opens a connection can go: it works, connect() raises,
\* or the server rejects the statement.
Outcomes == {"ok", "connect_error", "execute_error"}

\* update_schemas can also find no SQL file to read.
SchemaOutcomes == Outcomes \cup {"file_not_found"}

\* with connect_to_db() as conn: psycopg2 ends the transaction when the
\* block is left (commit, or rollback on an exception) and leaves the
\* connection open; no line of the step closes it.  When the step
\* returns, its frame drops the last reference to the connection and
\* CPython (the runtime psycopg2 is built for) finalises it at once, which
\* closes it.  When the step raises, the traceback keeps the frame, and
\* the connection with it, open to the end of the process.  A connect()
\* that raises opened nothing.
Connection(step, outcome) ==
    IF outcome \notin {"ok", "execute_error"} THEN <<>>
    ELSE <<[step |-> step, state |-> IF outcome = "ok" THEN "closed" ELSE "open"]>>

\* data = [(currency_code, rate, datetime.now()) for ...]: one reading of
\* the clock per row; the clock may tick once while the rows are built,
\* after row `tick` (after the last one: every row reads the same time).
Data(m, now, tick) == [i \in 1..Len(m) |-> [currency_code |-> m[i].k, rate |-> m[i].v, updated_at |-> IF i <= tick THEN now ELSE now + 1]]

\* The bug of a plain INSERT.
InsertRow(table, row) == table \cup {row}

\* INSERT ... ON CONFLICT (currency_code) DO UPDATE SET rate, updated_at
\* for one row.
UpsertRow(table, row) ==
    IF \E r \in table : r.currency_code = row.currency_code
    THEN {IF r.currency_code = row.currency_code THEN [r EXCEPT !.rate = row.rate, !.updated_at = row.updated_at] ELSE r : r \in table}
    ELSE table \cup {row}

\* execute_values: the rows of data, in order.
RECURSIVE Upsert(_, _)
Upsert(table, data) == IF data = <<>> THEN table ELSE Upsert(UpsertRow(table, Head(data)), Tail(data))

\* FROM ecb_exchange_rates er WHERE o.currency_code = er.currency_code
Matching(o, table) == {er \in table : er.currency_code = o.currency_code}

\* The bug of converting the revenue and forgetting the discount.
ConvertedRevenue(o, er) == IF o.currency_code = EUR THEN o.revenue ELSE Div(o.revenue, er.rate)

\* CASE WHEN o.currency_code = 'EUR' THEN ... ELSE ... / er.rate END
ConvertedAmount(o, er) ==
    IF o.currency_code = EUR THEN Sub(o.revenue, o.order_discount)
    ELSE Div(Sub(o.revenue, o.order_discount), er.rate)

\* The statement is rejected when a joined row divides by zero.
ConversionRaises(os, table) == \E i \in DOMAIN os : \E er \in Matching(os[i], table) : os[i].currency_code # EUR /\ DivisionByZero(Sub(os[i].revenue, os[i].order_discount), er.rate)

\* The bug of an outer join: a row with no match is set to NULL.
ConvertOrderOuter(o, table) ==
    IF Matching(o, table) = {} THEN [o EXCEPT !.converted_amount_eur = Null]
    ELSE [o EXCEPT !.converted_amount_eur = ConvertedAmount(o, CHOOSE er \in Matching(o, table) : TRUE)]

\* UPDATE orders o SET converted_amount_eur = ... : a row with no match in
\* the join is not updated.
ConvertOrder(o, table) ==
    IF Matching(o, table) = {} THEN o
    ELSE [o EXCEPT !.converted_amount_eur = ConvertedAmount(o, CHOOSE er \in Matching(o, table) : TRUE)]

ConvertOrders(os, table) == [i \in DOMAIN os |-> ConvertOrder(os[i], table)]

\* ---------------------------------------------------------------- main
\* The calls of main in order; an exception leaves main at once.
Following(step) == CASE step = "fetch" -> "schemaA" [] step = "schemaA" -> "write" [] step = "write" -> "schemaB" [] step = "schemaB" -> "convert" [] OTHER -> "done"

\* The bug of a handler that logs and goes on.
AfterSwallowed(step, raised) == Following(step)

After(step, raised) == IF raised THEN "aborted" ELSE Following(step)


\* The log lines of a step that opens a connection, from connect_to_db's
\* handler and the step's own.
ConnectLog(outcome) == IF outcome = "connect_error" THEN <<Line("Error connecting to the database", <<>>)>> ELSE <<>>

\* update_schemas(sql_file)
UpdateSchemasLog(sql_file, outcome) ==
    <<Line("Reading file", sql_file)>> \o
    (CASE outcome = "file_not_found" -> <<Line("Error: SQL file not found", sql_file)>>
       [] outcome = "ok" -> <<Line("Successfully updated schema from file", sql_file)>>
       [] OTHER -> ConnectLog(outcome) \o <<Line("Error running query file", sql_file)>>)

\* write_latest_exchange_rates(rates, table_name)
WriteLog(m, outcome) ==
    IF outcome = "ok" THEN <<Line("Successfully wrote values", Len(m))>>
    ELSE ConnectLog(outcome) \o <<Line("Error saving data to database", <<>>)>>

\* convert_order_details_currency()
ConvertLog(outcome) ==
    IF outcome = "ok" THEN <<>>
    ELSE ConnectLog(outcome) \o <<Line("Failed to convert orders", <<>>)>>

\* ---------------------------------------------------------------- state
VARIABLES
    pc,          \* the call main makes next: "fetch", "schemaA", "write", "schemaB", "convert"; "done"; "aborted"
    runs,        \* process runs of main started so far
    clock,       \* the earliest reading the next datetime.now() gives
    response,    \* what the GET answered in this run
    rates,       \* main's rates: the mapping the fetch returned
    exportDir,   \* data/exchange_rates/ exists
    snapshots,   \* the dated files in it, by date
    ratesTable,  \* the rows of ecb_exchange_rates
    orders,      \* the rows of orders
    executed,    \* the schema files executed and committed
    conns,       \* the connections this process opened
    log,         \* the lines this process logged
    writes       \* history: the mappings written and committed, with the time of the call

vars == <<pc, runs, clock, response, rates, exportDir, snapshots, ratesTable, orders, executed, conns, log, writes>>

NoResponse == [status |-> "none", files |-> <<>>]

OrderCurrencies == {EUR, USD, GBP}

\* Order i as the other system left it: the column this job fills is NULL
\* on the odd rows and holds an earlier amount on the even ones.
OrderRow(i, code) == [currency_code |-> code, revenue |-> Num(100), order_discount |-> Num(10), converted_amount_eur |-> IF i % 2 = 1 THEN Null ELSE Num(7)]

\* A first run against a database that holds orders and no rates yet.
Init ==
    /\ pc = "fetch"
    /\ runs = 1
    /\ clock = 1
    /\ response = NoResponse
    /\ rates = <<>>
    /\ exportDir = FALSE
    /\ snapshots = {}
    /\ ratesTable = {}
    /\ \E codes \in [1..NumOrders -> OrderCurrencies] : orders = [i \in 1..NumOrders |-> OrderRow(i, codes[i])]
    /\ executed = <<>>
    /\ conns = <<>>
    /\ log = <<>>
    /\ writes = <<>>

\* rates = import_exchange_rate_from_csv_zip()
FetchFrom(feed) ==
    /\ pc = "fetch"
    /\ \E p \in feed :
        LET r == ImportExchangeRateFromCsvZip(p)
        IN  /\ response' = p
            /\ rates' = r.rates
            /\ exportDir' = (exportDir \/ r.saved)
            /\ snapshots' = IF r.saved THEN snapshots \cup {clock} ELSE snapshots
            /\ log' = log \o <<Line("Extracting latest rates from ECB website ...", <<>>)>> \o r.log \o (IF r.exc = "none" THEN <<Line("Retrieved the following rates", r.rates)>> ELSE <<>>)
            /\ pc' = After("fetch", r.exc # "none")
    /\ UNCHANGED <<runs, clock, ratesTable, orders, executed, conns, writes>>

\* update_schemas(sql_file=...), the call at position step of main.
UpdateSchemas(step, announce, sql_file) ==
    /\ pc = step
    /\ \E outcome \in SchemaOutcomes :
        /\ executed' = IF outcome = "ok" THEN Append(executed, sql_file) ELSE executed
        /\ conns' = conns \o Connection(step, outcome)
        /\ log' = log \o <<Line(announce, <<>>)>> \o UpdateSchemasLog(sql_file, outcome)
        /\ pc' = After(step, outcome # "ok")
    /\ UNCHANGED <<runs, clock, response, rates, exportDir, snapshots, ratesTable, orders, writes>>

SchemaA == UpdateSchemas("schemaA", "Setting up schema ...", "ecb_exchange_rates.sql")

SchemaB == UpdateSchemas("schemaB", "Update schema before converting ...", "add_converted_amount_column_to_orders.sql")

\* write_latest_exchange_rates(rates=rates, table_name="ecb_exchange_rates")
WriteLatestExchangeRates ==
    /\ pc = "write"
    /\ \E outcome \in Outcomes, tick \in 1..Len(rates) :
        /\ ratesTable' = IF outcome = "ok" THEN Upsert(ratesTable, Data(rates, clock, tick)) ELSE ratesTable
        /\ writes' = IF outcome = "ok" THEN Append(writes, [rates |-> rates, at |-> clock]) ELSE writes
        /\ clock' = clock + 2
        /\ conns' = conns \o Connection("write", outcome)
        /\ log' = log \o <<Line("Writing rates to table ...", <<>>)>> \o WriteLog(rates, outcome)
        /\ pc' = After("write", outcome # "ok")
    /\ UNCHANGED <<runs, response, rates, exportDir, snapshots, orders, executed>>

\* convert_order_details_currency()
ConvertOrderDetailsCurrency ==
    /\ pc = "convert"
    /\ \E outcome \in Outcomes :
        /\ outcome = "ok" => ~ConversionRaises(orders, ratesTable)
        /\ orders' = IF outcome = "ok" THEN ConvertOrders(orders, ratesTable) ELSE orders
        /\ conns' = conns \o Connection("convert", outcome)
        /\ log' = log \o <<Line("Converting order values to EUR ...", <<>>)>> \o ConvertLog(outcome) \o (IF outcome = "ok" THEN <<Line("Done!", <<>>)>> ELSE <<>>)
        /\ pc' = After("convert", outcome # "ok")
    /\ UNCHANGED <<runs, clock, response, rates, exportDir, snapshots, ratesTable, executed, writes>>

\* The scheduler starts the job again: a new process, a later time, the
\* same database and export directory.
Restart ==
    /\ pc \in {"done", "aborted"}
    /\ runs < MaxRuns
    /\ pc' = "fetch"
    /\ runs' = runs + 1
    /\ clock' = clock + 1
    /\ response' = NoResponse
    /\ rates' = <<>>
    /\ conns' = <<>>
    /\ log' = <<>>
    /\ UNCHANGED <<exportDir, snapshots, ratesTable, orders, executed, writes>>

\* The answers that are no archive, and the archives of one file that
\* publishes one currency, the dollar or the euro itself.
Feed == {p \in Payloads : p.status # "zip" \/ (Len(p.files) = 1 /\ Len(p.files[1].header) = 2 /\ Strip(p.files[1].header[2]) \in {USD, EUR})}

\* The job, run after run, on these.
Fetch == FetchFrom(Feed)

Next == Fetch \/ SchemaA \/ WriteLatestExchangeRates \/ SchemaB \/ ConvertOrderDetailsCurrency \/ Restart

Spec == Init /\ [][Next]_vars

\* One run of the job on any publication.
FetchAny == FetchFrom(Payloads)

NextOnce == FetchAny \/ SchemaA \/ WriteLatestExchangeRates \/ SchemaB \/ ConvertOrderDetailsCurrency

SpecOnce == Init /\ [][NextOnce]_vars


\* ------------------------------------------------------- reading the log
Logged(msg) == \E i \in 1..Len(log) : log[i].msg = msg

LoggedWith(msg, arg) == \E i \in 1..Len(log) : log[i].msg = msg /\ log[i].arg = arg

MainOrder == <<"fetch", "schemaA", "write", "schemaB", "convert">>

\* The line main logs before the call of a step.
Announced(step) == CASE step = "fetch" -> "Extracting latest rates from ECB website ..." [] step = "schemaA" -> "Setting up schema ..." [] step = "write" -> "Writing rates to table ..." [] step = "schemaB" -> "Update schema before converting ..." [] OTHER -> "Converting order values to EUR ..."

\* The line logged when the call of a step has returned.
Completed(step) ==
    CASE step = "fetch" -> Logged("Retrieved the following rates")
      [] step = "schemaA" -> LoggedWith("Successfully updated schema from file", "ecb_exchange_rates.sql")
      [] step = "write" -> Logged("Successfully wrote values")
      [] step = "schemaB" -> LoggedWith("Successfully updated schema from file", "add_converted_amount_column_to_orders.sql")
      [] OTHER -> Logged("Done!")

IsAnnouncement(l) == \E k \in 1..Len(MainOrder) : l.msg = Announced(MainOrder[k])

\* The steps this run has started, in the order of their announcements.
Started == LET a == SelectSeq(log, IsAnnouncement) IN [i \in 1..Len(a) |-> MainOrder[CHOOSE k \in 1..Len(MainOrder) : a[i].msg = Announced(MainOrder[k])]]

Position(step) == CHOOSE k \in 1..Len(MainOrder) : MainOrder[k] = step

\* The fetch of this run returned a mapping.
Returned == Completed("fetch")

\* The archive entry the fetch of this run parsed.
Source == response.files[Len(response.files)]

\* The currency columns of a table.
CurrencyColumns(tb) == 2..Len(tb.header)

BlankText(raw) == Strip(raw) = <<>>

\* ------------------------------------------------------------------ C1
\* C1: the steps of a run start in the order fetch, schema A, write,
\* schema B, convert; a step starts only when every earlier step has
\* completed; a run that aborted started nothing after the step that
\* failed; a run that is done completed all five.
C1_InOrder ==
    /\ Started = SubSeq(MainOrder, 1, Len(Started))
    /\ \A i \in 1..(Len(Started) - 1) : Completed(Started[i])
    /\ pc \in {"fetch", "schemaA", "write", "schemaB", "convert"} => Len(Started) = Position(pc) - 1 /\ \A i \in 1..Len(Started) : Completed(Started[i])
    /\ pc = "aborted" => Len(Started) >= 1 /\ ~Completed(Started[Len(Started)])
    /\ pc = "done" => Len(Started) = 5 /\ Completed("convert")

\* C1: the step that aborts the run undoes nothing: what the earlier steps
\* committed and wrote stays as it was.
C1_NoCompensation == pc' = "aborted" => UNCHANGED <<ratesTable, orders, executed, snapshots, exportDir>>

\* C1: in every run of main the steps execute in order, the first failing
\* step aborts the run, no later step runs and no earlier step is
\* compensated.
C1_MainSequence == [](C1_InOrder) /\ [][C1_NoCompensation]_vars

\* A run aborted by its third step, with the rates schema and the snapshot
\* of the two steps before it in place.
C1_Witness ==
    /\ pc = "aborted"
    /\ Started = <<"fetch", "schemaA", "write">>
    /\ Logged("Error saving data to database")
    /\ executed # <<>>
    /\ snapshots # {}

\* ------------------------------------------------------------------ C2
\* The amount a matched order must hold: revenue - order_discount for EUR,
\* else the number that times the rate gives revenue - order_discount
\* (NaN for a NaN rate).
IsConverted(o, er) ==
    LET net == Sub(o.revenue, o.order_discount)
        got == o.converted_amount_eur
    IN  IF o.currency_code = EUR THEN got.t = "num" /\ got.n * o.revenue.d * o.order_discount.d = (o.revenue.n * o.order_discount.d - o.order_discount.n * o.revenue.d) * got.d
        ELSE IF er.rate.t = "nan" THEN got.t = "nan"
        ELSE got.t = "num" /\ got.n * er.rate.n * net.d = net.n * er.rate.d * got.d

\* C2: when convert_order_details_currency has succeeded, every order
\* whose currency_code has a row in the rates table holds
\* revenue - order_discount (EUR) or (revenue - order_discount) / rate.
C2_Converted == pc = "done" => \A i \in DOMAIN orders : \A er \in Matching(orders[i], ratesTable) : IsConverted(orders[i], er)

\* Rates {EUR: 1, USD: 2}: the USD order of 100 less 10 holds 45 and the
\* EUR order of 100 less 10 holds 90.
C2_Witness ==
    /\ pc = "done"
    /\ \E er \in ratesTable : er.currency_code = USD /\ er.rate = Num(2)
    /\ \E er \in ratesTable : er.currency_code = EUR /\ er.rate = Num(1)
    /\ \E i, j \in DOMAIN orders :
        /\ orders[i].currency_code = USD /\ orders[i].revenue = Num(100) /\ orders[i].order_discount = Num(10) /\ orders[i].converted_amount_eur = Num(45)
        /\ orders[j].currency_code = EUR /\ orders[j].revenue = Num(100) /\ orders[j].order_discount = Num(10) /\ orders[j].converted_amount_eur = Num(90)

\* ------------------------------------------------------------------ C3
\* What a step taken at the conversion leaves alone.
C3_UnmatchedStep == pc = "convert" => \A i \in DOMAIN orders : (Matching(orders[i], ratesTable) = {} => orders'[i] = orders[i])

\* C3: convert_order_details_currency, when it succeeds too, leaves every
\* order whose currency_code has no row in the rates table as it was.
C3_UnmatchedKept == [][C3_UnmatchedStep]_vars

\* The conversion succeeded with an order of no known currency, which
\* keeps the amount it had, beside an order it converted.
C3_Witness ==
    /\ pc = "done"
    /\ \E i, j \in DOMAIN orders :
        /\ Matching(orders[i], ratesTable) = {}
        /\ orders[i].converted_amount_eur = Num(7)
        /\ Matching(orders[j], ratesTable) # {}
        /\ orders[j].converted_amount_eur = Num(90)

\* ------------------------------------------------------------------ C4
RowsOf(code) == {r \in ratesTable : r.currency_code = code}

\* C4: the rates table never holds two rows of one currency_code; and
\* when the last two writes wrote the same mapping, the table holds for
\* each code of it exactly one row, with the mapping's rate and a time
\* read during the second write, later than every time of the first.
C4_Upsert ==
    /\ \A r1, r2 \in ratesTable : r1.currency_code = r2.currency_code => r1 = r2
    /\ LET n == Len(writes)
       IN  (n >= 2 /\ writes[n].rates = writes[n - 1].rates) =>
            \A i \in 1..Len(writes[n].rates) :
                LET e == writes[n].rates[i]
                IN  /\ Cardinality(RowsOf(e.k)) = 1
                    /\ \A r \in RowsOf(e.k) : r.rate = e.v /\ r.updated_at \in {writes[n].at, writes[n].at + 1} /\ r.updated_at > writes[n - 1].at + 1

\* The mapping {USD: 2, EUR: 1} written by two runs in succession.
C4_Witness ==
    /\ Len(writes) = 2
    /\ writes[1].rates = writes[2].rates
    /\ Keys(writes[2].rates) = {USD, EUR}
    /\ Cardinality(ratesTable) = 2

\* ------------------------------------------------------------------ C5
\* A step of a run whose download is no ZIP archive.
C5_BadZipStep ==
    (response'.status = "bad_zip" /\ runs' = runs) =>
        /\ pc' = "aborted"
        /\ log'[Len(log')].msg = "Error with the zip file format"
        /\ conns' = <<>>
        /\ UNCHANGED <<exportDir, snapshots, ratesTable, orders, executed, writes>>

\* C5: in a run whose download is no ZIP archive the fetch raises with the
\* archive error logged last, and no step of the run writes a snapshot,
\* makes the export directory, opens a connection or changes the database.
C5_BadZip == [][C5_BadZipStep]_vars

\* A second run that downloaded no archive, over the rates the first run
\* wrote.
C5_Witness ==
    /\ response.status = "bad_zip"
    /\ pc = "aborted"
    /\ runs = 2
    /\ ratesTable # {}
    /\ Cardinality(snapshots) = 1

\* ------------------------------------------------------------------ C6
\* C6: every connection a step opened is closed when the step is over, on
\* success and on failure: between steps and at the end of the run no
\* connection of this run is open.
C6_Released == \A i \in 1..Len(conns) : conns[i].state = "closed"

\* ------------------------------------------------------------------ C7
\* C7: the mapping the fetch returns holds EUR with the value 1.0, exactly
\* once, whatever the source held for EUR.
C7_EurIsOne == Returned => EUR \in Keys(rates) /\ \A i \in 1..Len(rates) : (rates[i].k = EUR => rates[i].v = Num(1))

\* The source had a EUR column with the value 2.
C7_Witness ==
    /\ Returned
    /\ \E j \in CurrencyColumns(Source) : Strip(Source.header[j]) = EUR /\ Source.row[j] = <<SP, "2">>
    /\ DictGet(rates, EUR) = Num(1)

\* ------------------------------------------------------------------ C8
\* C8: no key of the returned mapping is empty or whitespace-only, and
\* every key is EUR or the trimmed name of a currency column of the source
\* whose name is not blank: the columns with a blank or whitespace-only
\* name are excluded.
C8_BlankNamesExcluded ==
    Returned => \A key \in Keys(rates) :
        /\ ~BlankText(key)
        /\ key = EUR \/ \E j \in CurrencyColumns(Source) : ~BlankText(Source.header[j]) /\ key = Strip(Source.header[j])

\* ------------------------------------------------------------------ C9
\* The mapping the fetch returns for a table.
RatesOf(tb) == InsertEUR(ProcessRates(CleanColumns(ReadCsv(tb)), 2, [exc |-> "none", rates |-> <<>>, warned |-> <<>>]).rates)

BlankValued(tb, j) == ~BlankText(tb.header[j]) /\ BlankText(tb.row[j])

====
